---- MODULE Spec2Model ----
(***************************************************************************)
(* Model of Blogs/2025/Australia/Photos/process_photos.py: the             *)
(* PhotoProcessor batch pipeline (enumeration, metadata extraction,        *)
(* geocode cache, transcode, archive, aggregation).                        *)
(*                                                                         *)
(* File names are sequences of ASCII codes so that suffix matching, stem   *)
(* extraction and sorting are computed, not tabulated.  Python's None is   *)
(* the string "None" for scalars and the empty tuple for tuples/dicts.     *)
(***************************************************************************)
EXTENDS Integers, Sequences, FiniteSets, TLC

VARIABLES
    case_sensitive,        \* pathlib flavour of the platform: TRUE posix, FALSE windows
    fs,                    \* files on disk: set of <<parent directory, name>>
    optimized_content,     \* optimized/<name> -> what the file holds (source name, or "partial")
    metadata_file,         \* content of metadata.json, <<>> while it does not exist
    metadata_writes,       \* number of times metadata.json was written
    photos_data,           \* self.photos_data
    location_cache,        \* self.location_cache
    total_original_size,   \* self.total_original_size
    total_optimized_size,  \* self.total_optimized_size
    image_files,           \* run(): image_files
    index,                 \* run(): position in image_files (1-based)
    pc,                    \* position inside run() / process_photo()
    cur,                   \* locals of the running process_photo call
    failures,              \* history: <<index, name, step>> of every call that raised
    transcoded,            \* history: <<index, name>> of every optimize_image call that returned
    geo_log,               \* history: one entry per reverse_geocode call
    sleeps,                \* history: number of time.sleep(NOMINATIM_DELAY) calls
    reported               \* what run() printed at its end ("" while running)

vars == <<case_sensitive, fs, optimized_content, metadata_file, metadata_writes,
          photos_data, location_cache, total_original_size, total_optimized_size,
          image_files, index, pc, cur, failures, transcoded, geo_log, sleeps, reported>>

----------------------------------------------------------------------------
(* Bounds and program constants *)

MaxFiles == 2          \* files placed in the directory tree before the run

MAX_WIDTH == 1920
BytesPerMB == 1048576  \* / 1024 / 1024

----------------------------------------------------------------------------
(* Strings as sequences of ASCII codes *)

DOT == 46

a_heic == <<97, DOT, 104, 101, 105, 99>>     \* "a.heic"
a_jpg  == <<97, DOT, 106, 112, 103>>         \* "a.jpg"
b_JPG  == <<98, DOT, 74, 80, 71>>            \* "b.JPG"
d_png  == <<100, DOT, 112, 110, 103>>        \* "d.png"
z_jpeg == <<122, DOT, 106, 112, 101, 103>>   \* "z.jpeg"

ext_jpg  == <<DOT, 106, 112, 103>>           \* ".jpg"
ext_jpeg == <<DOT, 106, 112, 101, 103>>      \* ".jpeg"
ext_heic == <<DOT, 104, 101, 105, 99>>       \* ".heic"
ext_HEIC == <<DOT, 72, 69, 73, 67>>          \* ".HEIC"

SOURCE == "."
ORIGINALS == "originals"
OPTIMIZED == "optimized"
SUBDIR == "sub"

FileNames == {a_heic, a_jpg, b_JPG, d_png}
NestedPaths == {<<SUBDIR, z_jpeg>>}

Lower(c) == IF c \in 65..90 THEN c + 32 ELSE c
LowerStr(s) == [i \in 1..Len(s) |-> Lower(s[i])]

\* str < str, by code point
RECURSIVE StrLess(_, _)
StrLess(s, t) ==
    IF t = <<>> THEN FALSE
    ELSE IF s = <<>> THEN TRUE
    ELSE IF Head(s) # Head(t) THEN Head(s) < Head(t)
    ELSE StrLess(Tail(s), Tail(t))

EndsWith(s, suffix) ==
    /\ Len(suffix) <= Len(s)
    /\ SubSeq(s, Len(s) - Len(suffix) + 1, Len(s)) = suffix

\* index of the last "." of a name, 0 if none (a leading dot is no suffix)
LastDot(s) ==
    LET dots == {i \in 2..Len(s) : s[i] = DOT}
    IN IF dots = {} THEN 0 ELSE CHOOSE i \in dots : \A j \in dots : j <= i

Stem(s) == IF LastDot(s) = 0 THEN s ELSE SubSeq(s, 1, LastDot(s) - 1)
Suffix(s) == IF LastDot(s) = 0 THEN <<>> ELSE SubSeq(s, LastDot(s), Len(s))

----------------------------------------------------------------------------
(* get_image_files *)

extensions == <<ext_jpg, ext_jpeg, ext_heic, ext_HEIC>>

\* fnmatch of the pattern "*<ext>" against a name, under the flavour's case rule
PatternMatches(name, ext, cs) ==
    IF cs THEN EndsWith(name, ext)
    ELSE EndsWith(LowerStr(name), LowerStr(ext))

\* Path ordering: posix compares the parts, windows their case-folded form
PathLess(n1, n2, cs) ==
    IF cs THEN StrLess(n1, n2) ELSE StrLess(LowerStr(n1), LowerStr(n2))

RECURSIVE InsertSorted(_, _, _)
InsertSorted(x, list, cs) ==
    IF list = <<>> THEN <<x>>
    ELSE IF PathLess(x, Head(list), cs) THEN <<x>> \o list
    ELSE <<Head(list)>> \o InsertSorted(x, Tail(list), cs)

\* sorted(files): duplicates are kept
RECURSIVE sorted(_, _)
sorted(list, cs) ==
    IF list = <<>> THEN <<>>
    ELSE InsertSorted(Head(list), sorted(Tail(list), cs), cs)

RECURSIVE SetToList(_)
SetToList(S) ==
    IF S = {} THEN <<>>
    ELSE LET x == CHOOSE y \in S : TRUE IN <<x>> \o SetToList(S \ {x})

\* self.source_dir.glob(f"*{ext}"): direct children of the directory only
Glob(files, dir, ext, cs) ==
    SetToList({p \in files : p[1] = dir /\ PatternMatches(p[2], ext, cs)})

RECURSIVE ExtendAll(_, _, _)
ExtendAll(files, exts, cs) ==
    IF exts = <<>> THEN <<>>
    ELSE Glob(files, SOURCE, Head(exts), cs) \o ExtendAll(files, Tail(exts), cs)

\* the list of names get_image_files returns
get_image_files(files, cs) ==
    LET found == ExtendAll(files, extensions, cs)
        kept  == SelectSeq(found, LAMBDA p : p[1] = SOURCE)
    IN sorted([i \in 1..Len(kept) |-> kept[i][2]], cs)

----------------------------------------------------------------------------
(* EXIF values.  A dict is a function; every value is a record with a     *)
(* "type" field naming its Python type.                                    *)

Str(text)     == [type |-> "str", text |-> text]
Bytes(text)   == [type |-> "bytes", text |-> text]
Rational(n, d) == [type |-> "rational", num |-> n, den |-> d]
StrItem       == [type |-> "str", num |-> 0, den |-> 1]
Tuple(items)  == [type |-> "tuple", items |-> items]
NoneValue     == [type |-> "NoneType", items |-> <<>>]
Dict(tags)    == [type |-> "dict", tags |-> tags]
IntValue      == [type |-> "int", tags |-> <<>>]

\* datetime.strptime(dt_str, "%Y:%m:%d %H:%M:%S").strftime("%Y-%m-%dT%H:%M:%S")
Strptime(text) ==
    CASE text = "2024:12:16 21:22:00" -> "2024-12-16T21:22:00"
      [] text = "2025:01:02 03:04:05" -> "2025-01-02T03:04:05"
      [] OTHER -> "ValueError"

Returned(v) == [exc |-> "", value |-> v]
Raised(e)   == [exc |-> e, value |-> "None"]

RECURSIVE ScanDateKeys(_, _)
ScanDateKeys(exif, keys) ==
    IF keys = <<>> THEN Returned("None")
    ELSE IF Head(keys) \notin DOMAIN exif THEN ScanDateKeys(exif, Tail(keys))
    ELSE LET dt_str == exif[Head(keys)] IN
         IF dt_str.type # "str" THEN Raised("TypeError")
         ELSE IF Strptime(dt_str.text) = "ValueError"
              THEN ScanDateKeys(exif, Tail(keys))
              ELSE Returned(Strptime(dt_str.text))

get_datetime_taken(exif) ==
    ScanDateKeys(exif, <<"DateTimeOriginal", "DateTime", "DateTimeDigitized">>)

\* one rational, in units of 1e-7 of its own unit times scale/10^7
Scaled(r, scale, divisor) ==
    LET q == r.num \div r.den
        f == r.num % r.den
    IN (q * scale) \div divisor + (f * scale) \div (divisor * r.den)

\* convert_to_degrees: d + m/60.0 + s/3600.0, in units of 1e-7 degree
convert_to_degrees(value) ==
    IF value.type # "tuple" THEN [exc |-> "TypeError", value |-> 0]
    ELSE IF Len(value.items) # 3 THEN [exc |-> "ValueError", value |-> 0]
    ELSE IF \E i \in 1..3 : value.items[i].type # "rational"
         THEN [exc |-> "TypeError", value |-> 0]
    ELSE IF \E i \in 1..3 : value.items[i].den = 0
         THEN [exc |-> "ZeroDivisionError", value |-> 0]
    ELSE [exc |-> "",
          value |-> Scaled(value.items[1], 10000000, 1)
                    + Scaled(value.items[2], 10000000, 60)
                    + Scaled(value.items[3], 25000, 9)]

Caught == {"KeyError", "TypeError", "ZeroDivisionError"}

\* the body of the try block, lines 100-108
GpsTryBlock(gps_info) ==
    IF "GPSLatitude" \notin DOMAIN gps_info THEN [exc |-> "KeyError", value |-> <<>>]
    ELSE LET lat == convert_to_degrees(gps_info["GPSLatitude"]) IN
    IF lat.exc # "" THEN [exc |-> lat.exc, value |-> <<>>]
    ELSE IF "GPSLongitude" \notin DOMAIN gps_info THEN [exc |-> "KeyError", value |-> <<>>]
    ELSE LET lon == convert_to_degrees(gps_info["GPSLongitude"]) IN
    IF lon.exc # "" THEN [exc |-> lon.exc, value |-> <<>>]
    ELSE IF "GPSLatitudeRef" \notin DOMAIN gps_info THEN [exc |-> "KeyError", value |-> <<>>]
    ELSE IF "GPSLongitudeRef" \notin DOMAIN gps_info THEN [exc |-> "KeyError", value |-> <<>>]
    ELSE [exc |-> "",
          value |-> << IF gps_info["GPSLatitudeRef"] = "S" THEN -lat.value ELSE lat.value,
                       IF gps_info["GPSLongitudeRef"] = "W" THEN -lon.value ELSE lon.value >>]

\* returns [exc, value]: value is <<lat, lon>> or <<>> for None
get_gps_coordinates(exif) ==
    IF "GPSInfo" \notin DOMAIN exif THEN [exc |-> "", value |-> <<>>]
    ELSE IF exif["GPSInfo"].type # "dict" THEN [exc |-> "AttributeError", value |-> <<>>]
    ELSE LET r == GpsTryBlock(exif["GPSInfo"].tags) IN
         IF r.exc \in Caught THEN [exc |-> "", value |-> <<>>] ELSE r

----------------------------------------------------------------------------
(* reverse_geocode *)

\* f"{v:.6f}" of a value held in units of 1e-7: the nearest multiple of 1e-6
Round6(v) ==
    LET m == IF v < 0 THEN -v ELSE v
        q == m \div 10
        r == m % 10
        n == IF r > 5 \/ (r = 5 /\ q % 2 = 1) THEN q + 1 ELSE q
    IN IF v < 0 THEN -n ELSE n

cache_key(lat, lon) == <<Round6(lat), Round6(lon)>>

Get(d, k) == IF k \in DOMAIN d THEN d[k] ELSE "None"
Or(x, y) == IF x \in {"None", ""} THEN y ELSE x

\* lines 150-161: the location built from a 200 response with a JSON object body
LocationOf(body) ==
    << Or(Get(body.address, "city"),
          Or(Get(body.address, "town"),
             Or(Get(body.address, "village"), Get(body.address, "suburb")))),
       Get(body.address, "state"),
       Get(body.address, "country"),
       body.display_name >>

Ok200(resp) == resp.kind = "response" /\ resp.status_code = 200 /\ resp.json

CacheNeverHit(cache, key) == FALSE

\* line 130
CacheHit(cache, key) == key \in DOMAIN cache

CacheAfterAnyAnswer(cache, key, resp) ==
    (key :> (IF Ok200(resp) THEN LocationOf(resp.body) ELSE <<>>)) @@ cache

\* lines 163-172: the cache after the request has been answered
CacheAfter(cache, key, resp) ==
    IF Ok200(resp) THEN (key :> LocationOf(resp.body)) @@ cache ELSE cache

\* reverse_geocode(lat, lon) when the service answers resp:
\* ret is the Location (<<>> for None), cache the cache afterwards
reverse_geocode(cache, lat, lon, resp) ==
    LET key == cache_key(lat, lon) IN
    IF CacheHit(cache, key)
    THEN [ret |-> cache[key], cache |-> cache, key |-> key,
          slept |-> FALSE, http |-> FALSE, outcome |-> "hit"]
    ELSE [ret |-> IF Ok200(resp) THEN LocationOf(resp.body) ELSE <<>>,
          cache |-> CacheAfter(cache, key, resp), key |-> key,
          slept |-> TRUE, http |-> TRUE,
          outcome |-> IF Ok200(resp) THEN "ok"
                      ELSE IF resp.kind = "response" /\ resp.status_code # 200
                           THEN "status" ELSE "exception"]

----------------------------------------------------------------------------
(* optimize_image and the size arithmetic *)

\* (w, h) for which the double product (1920 / w) * h falls below the
\* integer 1920 * h / w that it approximates
FloatShortfall == {<<2148, 2148>>, <<2148, 537>>, <<2162, 1081>>}

\* int((MAX_WIDTH / width) * height)
new_height(width, height) ==
    (MAX_WIDTH * height) \div width
      - (IF <<width, height>> \in FloatShortfall THEN 1 ELSE 0)

\* lines 188-203: the size optimize_image returns, or the failure of a
\* resize to an empty image
optimize_image(width, height) ==
    IF width > MAX_WIDTH
    THEN IF new_height(width, height) < 1
         THEN [exc |-> "ValueError", size |-> <<0, 0>>]
         ELSE [exc |-> "", size |-> <<MAX_WIDTH, new_height(width, height)>>]
    ELSE [exc |-> "", size |-> <<width, height>>]

\* round(n / d) for n, d >= 0 as Python rounds an exactly represented value:
\* to nearest, ties to even
RoundHalfEven(n, d) ==
    LET q == n \div d
        r == n % d
    IN IF 2 * r > d \/ (2 * r = d /\ q % 2 = 1) THEN q + 1 ELSE q

\* round(bytes / 1024 / 1024, 2), in hundredths of a MB
file_size_mb(bytes) ==
    (bytes \div BytesPerMB) * 100 + RoundHalfEven((bytes % BytesPerMB) * 100, BytesPerMB)

----------------------------------------------------------------------------
(* Inputs: what the files hold and what the geocoding service answers *)

\* st_size of the JPEG that img.save writes for an image of the given size
EncodedSize(width, height) == IF width * height > 2000000 THEN 1376256 ELSE 131072

\* 33 deg 52' 7.6800" S, 151 deg 12' 30.5100" E and neighbours
LatA == Tuple(<<Rational(33, 1), Rational(52, 1), Rational(76800, 10000)>>)
LatB == Tuple(<<Rational(33, 1), Rational(52, 1), Rational(76801, 10000)>>)
LatC == Tuple(<<Rational(40, 1), Rational(42, 1), Rational(4608, 100)>>)
LonC == Tuple(<<Rational(74, 1), Rational(0, 1), Rational(216, 10)>>)
LonA == Tuple(<<Rational(151, 1), Rational(12, 1), Rational(305100, 10000)>>)

Gps(lat, latref, lon, lonref) ==
    Dict(("GPSLatitude" :> lat) @@ ("GPSLatitudeRef" :> latref) @@
         ("GPSLongitude" :> lon) @@ ("GPSLongitudeRef" :> lonref))

ExifNone     == <<>>
ExifSydneyA  == ("DateTimeOriginal" :> Str("2024:12:16 21:22:00")) @@
                ("GPSInfo" :> Gps(LatA, "S", LonA, "E"))
ExifSydneyB  == ("DateTimeOriginal" :> Str("0000:00:00 00:00:00")) @@
                ("DateTime" :> Str("2025:01:02 03:04:05")) @@
                ("GPSInfo" :> Gps(LatB, "S", LonA, "E"))
ExifNewYork  == ("GPSInfo" :> Gps(LatC, "N", LonC, "W"))
ExifBytesDate == ("DateTimeOriginal" :> Bytes("2024:12:16 21:22:00"))
ExifGpsInt   == ("GPSInfo" :> IntValue)
ExifTwoItems == ("GPSInfo" :> Gps(Tuple(<<Rational(33, 1), Rational(52, 1)>>), "S", LonA, "E"))
ExifZeroDen  == ("GPSInfo" :> Gps(Tuple(<<Rational(33, 1), Rational(52, 0), Rational(7, 1)>>),
                                  "S", LonA, "E"))
ExifNoRef    == ("DateTimeDigitized" :> Str("not a date")) @@
                ("GPSInfo" :> Dict(("GPSLatitude" :> LatA) @@ ("GPSLongitude" :> LonA)))
ExifBadItems == ("GPSInfo" :> Gps(Tuple(<<StrItem, StrItem, StrItem>>), "S", NoneValue, "E"))

\* what a source file holds: its byte size, whether Image.open can decode
\* it, its pixel size and its EXIF mapping (as get_exif_data returns it)
Content(st_size, decodable, size, exif) ==
    [st_size |-> st_size, decodable |-> decodable, size |-> size, exif |-> exif]

NoContent == Content(0, FALSE, <<0, 0>>, <<>>)

Contents ==
    { Content(3145728, TRUE, <<1280, 960>>, ExifNone),
      Content(3145728, TRUE, <<3000, 2001>>, ExifSydneyA),
      Content(3145728, TRUE, <<2148, 2148>>, ExifSydneyB),
      Content(3145728, TRUE, <<1280, 960>>, ExifNewYork),
      Content(3145728, TRUE, <<1280, 960>>, ExifBytesDate),
      Content(3145728, TRUE, <<1280, 960>>, ExifGpsInt),
      Content(3145728, TRUE, <<1280, 960>>, ExifTwoItems),
      Content(3145728, TRUE, <<1280, 960>>, ExifZeroDen),
      Content(3145728, TRUE, <<1280, 960>>, ExifNoRef),
      Content(3145728, TRUE, <<1280, 960>>, ExifBadItems),
      Content(2097152, FALSE, <<0, 0>>, <<>>) }

Response(status, body) ==
    [kind |-> "response", status_code |-> status, json |-> TRUE, body |-> body]
Body(address, display_name) == [address |-> address, display_name |-> display_name]

RespCity  == Response(200, Body(("city" :> "") @@ ("town" :> "Sydney") @@
                                ("suburb" :> "The Rocks") @@
                                ("state" :> "New South Wales") @@ ("country" :> "Australia"),
                                "Sydney, Australia"))
Resp500   == Response(500, Body(<<>>, "None"))
RespNotJson == [kind |-> "response", status_code |-> 200, json |-> FALSE,
                body |-> Body(<<>>, "None")]
RespTimeout == [kind |-> "exception", status_code |-> 0, json |-> FALSE,
                body |-> Body(<<>>, "None")]

Responses == {RespCity, Resp500, RespNotJson, RespTimeout}

----------------------------------------------------------------------------
(* State machine: run() and the steps of process_photo *)

EmptyCur ==
    [name |-> <<>>, content |-> NoContent, original_size_bytes |-> 0,
     original_width |-> 0, original_height |-> 0,
     date_taken |-> "None", gps_coords |-> <<>>, location |-> <<>>,
     output_filename |-> <<>>, optimized_width |-> 0, optimized_height |-> 0,
     optimized_size_bytes |-> 0]

SourceDirs == {S \in SUBSET FileNames : Cardinality(S) <= MaxFiles}

Init ==
    /\ case_sensitive \in BOOLEAN
    /\ fs \in {{<<SOURCE, n>> : n \in S} \cup NestedPaths : S \in SourceDirs}
    /\ optimized_content = <<>>
    /\ metadata_file = <<>>
    /\ metadata_writes = 0
    /\ photos_data = <<>>
    /\ location_cache = <<>>
    /\ total_original_size = 0
    /\ total_optimized_size = 0
    /\ image_files = <<>>
    /\ index = 0
    /\ pc = "start"
    /\ cur = EmptyCur
    /\ failures = {}
    /\ transcoded = {}
    /\ geo_log = <<>>
    /\ sleeps = 0
    /\ reported = ""

\* the for loop of run() moves to entry i of image_files, or past the end
EnterLoop(files, i) ==
    /\ index' = i
    /\ IF i <= Len(files)
       THEN pc' = "stat" /\ cur' = [EmptyCur EXCEPT !.name = files[i]]
       ELSE pc' = "finish" /\ cur' = EmptyCur

\* lines 325-335
RunStart ==
    /\ pc = "start"
    /\ LET files == get_image_files(fs, case_sensitive) IN
        /\ image_files' = files
        /\ IF Len(files) = 0
           THEN /\ pc' = "done"
                /\ reported' = "No image files found to process."
                /\ UNCHANGED <<index, cur>>
           ELSE /\ EnterLoop(files, 1)
                /\ UNCHANGED reported
    /\ UNCHANGED <<case_sensitive, fs, optimized_content, metadata_file, metadata_writes,
                   photos_data, location_cache, total_original_size, total_optimized_size,
                   failures, transcoded, geo_log, sleeps>>

\* lines 342-344: the except branch of the loop body, reached from step
HandleException(step) ==
    /\ failures' = failures \cup {<<index, cur.name, step>>}
    /\ EnterLoop(image_files, index + 1)
    /\ UNCHANGED <<case_sensitive, metadata_file, metadata_writes, photos_data,
                   location_cache, image_files, transcoded, geo_log, sleeps, reported>>

\* lines 210-211
StatOk ==
    /\ pc = "stat"
    /\ <<SOURCE, cur.name>> \in fs
    /\ \E content \in Contents :
        /\ cur' = [cur EXCEPT !.content = content,
                              !.original_size_bytes = content.st_size]
        /\ total_original_size' = total_original_size + content.st_size
    /\ pc' = "decode"
    /\ UNCHANGED <<case_sensitive, fs, optimized_content, metadata_file, metadata_writes,
                   photos_data, location_cache, total_optimized_size, image_files, index,
                   failures, transcoded, geo_log, sleeps, reported>>

\* photo_path.stat() raises FileNotFoundError
StatRaises ==
    /\ pc = "stat"
    /\ <<SOURCE, cur.name>> \notin fs
    /\ HandleException("stat")
    /\ UNCHANGED <<fs, optimized_content, total_original_size, total_optimized_size>>

\* lines 214-218: get_exif_data never raises, Image.open gives the size
DecodeOk ==
    /\ pc = "decode"
    /\ cur.content.decodable
    /\ cur' = [cur EXCEPT !.original_width = cur.content.size[1],
                          !.original_height = cur.content.size[2]]
    /\ pc' = "metadata"
    /\ UNCHANGED <<case_sensitive, fs, optimized_content, metadata_file, metadata_writes,
                   photos_data, location_cache, total_original_size, total_optimized_size,
                   image_files, index, failures, transcoded, geo_log, sleeps, reported>>

\* Image.open raises on a file that is not a decodable image
DecodeRaises ==
    /\ pc = "decode"
    /\ ~cur.content.decodable
    /\ HandleException("decode")
    /\ UNCHANGED <<fs, optimized_content, total_original_size, total_optimized_size>>

\* lines 221-222; the file's content is not read again through cur
MetadataOk ==
    /\ pc = "metadata"
    /\ get_datetime_taken(cur.content.exif).exc = ""
    /\ get_gps_coordinates(cur.content.exif).exc = ""
    /\ cur' = [cur EXCEPT !.date_taken = get_datetime_taken(cur.content.exif).value,
                          !.gps_coords = get_gps_coordinates(cur.content.exif).value,
                          !.content = NoContent]
    /\ pc' = "geocode"
    /\ UNCHANGED <<case_sensitive, fs, optimized_content, metadata_file, metadata_writes,
                   photos_data, location_cache, total_original_size, total_optimized_size,
                   image_files, index, failures, transcoded, geo_log, sleeps, reported>>

\* an exception leaves get_datetime_taken or get_gps_coordinates
MetadataRaises ==
    /\ pc = "metadata"
    /\ \/ get_datetime_taken(cur.content.exif).exc # ""
       \/ get_gps_coordinates(cur.content.exif).exc # ""
    /\ HandleException("metadata")
    /\ UNCHANGED <<fs, optimized_content, total_original_size, total_optimized_size>>

\* lines 228-229 when gps_coords is None
GeocodeSkipped ==
    /\ pc = "geocode"
    /\ cur.gps_coords = <<>>
    /\ pc' = "transcode"
    /\ UNCHANGED <<case_sensitive, fs, optimized_content, metadata_file, metadata_writes,
                   photos_data, location_cache, total_original_size, total_optimized_size,
                   image_files, index, cur, failures, transcoded, geo_log, sleeps, reported>>

\* lines 229-233: the call of reverse_geocode; it catches its own exceptions
GeocodeCall ==
    /\ pc = "geocode"
    /\ cur.gps_coords # <<>>
    /\ \E resp \in Responses :
        LET r == reverse_geocode(location_cache, cur.gps_coords[1], cur.gps_coords[2], resp)
        IN /\ cur' = [cur EXCEPT !.location = r.ret]
           /\ location_cache' = r.cache
           /\ sleeps' = sleeps + (IF r.slept THEN 1 ELSE 0)
           /\ geo_log' = Append(geo_log, [key |-> r.key, outcome |-> r.outcome,
                                          slept |-> r.slept, http |-> r.http,
                                          ret |-> r.ret])
    /\ pc' = "transcode"
    /\ UNCHANGED <<case_sensitive, fs, optimized_content, metadata_file, metadata_writes,
                   photos_data, total_original_size, total_optimized_size,
                   image_files, index, failures, transcoded, reported>>

\* line 236
OutputFilename(name) == Stem(name) \o ext_jpeg

\* lines 236-241: optimize_image returns
TranscodeOk ==
    /\ pc = "transcode"
    /\ <<SOURCE, cur.name>> \in fs
    /\ LET out == OutputFilename(cur.name)
           r == optimize_image(cur.original_width, cur.original_height)
       IN /\ r.exc = ""
          /\ cur' = [cur EXCEPT !.output_filename = out,
                                !.optimized_width = r.size[1],
                                !.optimized_height = r.size[2]]
          /\ fs' = fs \cup {<<OPTIMIZED, out>>}
          /\ optimized_content' = (out :> cur.name) @@ optimized_content
    /\ transcoded' = transcoded \cup {<<index, cur.name>>}
    /\ pc' = "optsize"
    /\ UNCHANGED <<case_sensitive, metadata_file, metadata_writes, photos_data,
                   location_cache, total_original_size, total_optimized_size,
                   image_files, index, failures, geo_log, sleeps, reported>>

\* the exception of optimize_image swallowed: process_photo goes on to the move
TranscodeSwallowed ==
    /\ pc = "transcode"
    /\ pc' = "move"
    /\ UNCHANGED <<case_sensitive, fs, optimized_content, metadata_file, metadata_writes,
                   photos_data, location_cache, total_original_size, total_optimized_size,
                   image_files, index, cur, failures, transcoded, geo_log, sleeps, reported>>

\* optimize_image raises; the output file is untouched (the failure came
\* before img.save opened it) or holds a partial write
TranscodeRaises ==
    /\ pc = "transcode"
    /\ LET out == OutputFilename(cur.name) IN
        \/ UNCHANGED <<fs, optimized_content>>
        \/ /\ fs' = fs \cup {<<OPTIMIZED, out>>}
           /\ optimized_content' = (out :> <<>>) @@ optimized_content
    /\ HandleException("transcode")
    /\ UNCHANGED <<total_original_size, total_optimized_size>>

\* lines 243-248; the file optimize_image has just saved is there to stat
OptSizeOk ==
    /\ pc = "optsize"
    /\ <<OPTIMIZED, cur.output_filename>> \in fs
    /\ LET size == EncodedSize(cur.optimized_width, cur.optimized_height) IN
        /\ cur' = [cur EXCEPT !.optimized_size_bytes = size]
        /\ total_optimized_size' = total_optimized_size + size
    /\ pc' = "move"
    /\ UNCHANGED <<case_sensitive, fs, optimized_content, metadata_file, metadata_writes,
                   photos_data, location_cache, total_original_size, image_files, index,
                   failures, transcoded, geo_log, sleeps, reported>>

\* lines 251-252
MoveOk ==
    /\ pc = "move"
    /\ <<SOURCE, cur.name>> \in fs
    /\ fs' = (fs \ {<<SOURCE, cur.name>>}) \cup {<<ORIGINALS, cur.name>>}
    /\ pc' = "append"
    /\ UNCHANGED <<case_sensitive, optimized_content, metadata_file, metadata_writes,
                   photos_data, location_cache, total_original_size, total_optimized_size,
                   image_files, index, cur, failures, transcoded, geo_log, sleeps, reported>>

\* shutil.move raises: the source file stays where it is
MoveRaises ==
    /\ pc = "move"
    /\ HandleException("move")
    /\ UNCHANGED <<fs, optimized_content, total_original_size, total_optimized_size>>

\* lines 255-274: the metadata entry; sizes in hundredths of a MB
PhotoRecord(c) ==
    [original_filename |-> c.name,
     optimized_filename |-> c.output_filename,
     date_taken |-> c.date_taken,
     gps |-> c.gps_coords,
     location |-> c.location,
     original_size |-> [width |-> c.original_width, height |-> c.original_height,
                        file_size_mb |-> file_size_mb(c.original_size_bytes)],
     optimized_size |-> [width |-> c.optimized_width, height |-> c.optimized_height,
                         file_size_mb |-> file_size_mb(c.optimized_size_bytes)]]

\* lines 276 and 341
AppendRecord ==
    /\ pc = "append"
    /\ photos_data' = Append(photos_data, PhotoRecord(cur))
    /\ EnterLoop(image_files, index + 1)
    /\ UNCHANGED <<case_sensitive, fs, optimized_content, metadata_file, metadata_writes,
                   location_cache, total_original_size, total_optimized_size, image_files,
                   failures, transcoded, geo_log, sleeps, reported>>

ShouldSaveAlways(records) == TRUE

\* line 347
ShouldSave(records) == records # <<>>

\* lines 280-289
MetadataOutput ==
    [photos |-> photos_data,
     summary |-> [total_photos |-> Len(photos_data),
                  total_original_size_mb |-> file_size_mb(total_original_size),
                  total_optimized_size_mb |-> file_size_mb(total_optimized_size),
                  total_size_saved_mb |->
                      file_size_mb(total_original_size - total_optimized_size)]]

\* lines 346-351
Finish ==
    /\ pc = "finish"
    /\ IF ShouldSave(photos_data)
       THEN /\ metadata_file' = MetadataOutput
            /\ metadata_writes' = metadata_writes + 1
            /\ reported' = "PROCESSING COMPLETE"
       ELSE /\ reported' = "No photos were successfully processed."
            /\ UNCHANGED <<metadata_file, metadata_writes>>
    /\ pc' = "done"
    /\ UNCHANGED <<case_sensitive, fs, optimized_content, photos_data, location_cache,
                   total_original_size, total_optimized_size, image_files, index, cur,
                   failures, transcoded, geo_log, sleeps>>

\* the steps of the for loop and of the end of run()
LoopStep ==
    \/ StatOk \/ StatRaises
    \/ DecodeOk \/ DecodeRaises
    \/ MetadataOk \/ MetadataRaises
    \/ GeocodeSkipped \/ GeocodeCall
    \/ TranscodeOk \/ TranscodeRaises
    \/ OptSizeOk
    \/ MoveOk \/ MoveRaises
    \/ AppendRecord
    \/ Finish

Next == RunStart \/ LoopStep

Spec == Init /\ [][Next]_vars

----------------------------------------------------------------------------
(* Claims *)

Records == 1..Len(photos_data)
Calls == 1..Len(geo_log)
FailedOutcomes == {"status", "exception"}

\* C1: a photo for which a step of process_photo raised has no PhotoRecord,
\* its source file is still in the source directory and not in originals/,
\* and run() has gone on to the later files of the list.
C1_FailedPhotoLeftInPlace ==
    /\ \A f \in failures :
        /\ \A i \in Records : photos_data[i].original_filename # f[2]
        /\ <<SOURCE, f[2]>> \in fs
        /\ <<ORIGINALS, f[2]>> \notin fs
        /\ index > f[1]
    /\ pc = "done" /\ image_files # <<>> => index = Len(image_files) + 1

\* C2 as claimed: of two reverse_geocode calls with the same key the later
\* one neither sleeps nor issues a request, so a key sees exactly one
\* request in total.
C2_OneRequestPerKey ==
    \A i, j \in Calls :
        i < j /\ geo_log[i].key = geo_log[j].key =>
            /\ ~geo_log[j].http
            /\ ~geo_log[j].slept
            /\ Cardinality({k \in Calls : geo_log[k].key = geo_log[i].key
                                           /\ geo_log[k].http}) = 1

\* C2 as amended: once a reverse_geocode call has got a Location for a key
\* (HTTP 200 with a JSON body, or a cache hit), every later call with that
\* key returns that Location without sleeping and without a request; a key
\* sees at most one successful request, and every sleep belongs to a request.
C2_CachedKeyNotRefetched ==
    /\ \A i, j \in Calls :
        i < j /\ geo_log[i].key = geo_log[j].key
              /\ geo_log[i].outcome \in {"ok", "hit"} =>
            /\ geo_log[j].outcome = "hit"
            /\ ~geo_log[j].http
            /\ ~geo_log[j].slept
            /\ geo_log[j].ret = geo_log[i].ret
    /\ \A i \in Calls :
        Cardinality({k \in Calls : geo_log[k].key = geo_log[i].key
                                    /\ geo_log[k].outcome = "ok"}) <= 1
    /\ sleeps = Cardinality({k \in Calls : geo_log[k].http})

C2_Witness ==
    \E i, j \in Calls :
        /\ i < j
        /\ geo_log[i].key = geo_log[j].key
        /\ geo_log[i].outcome = "ok"
        /\ geo_log[j].outcome = "hit"
        /\ geo_log[j].ret # <<>>
        /\ sleeps = 1

\* C3: a reverse_geocode call that ends with a non-200 status or with an
\* exception returns None and leaves location_cache as it was, and the next
\* call with the same key sleeps and issues the request again.
C3_FailureNotCached ==
    /\ [][Len(geo_log') > Len(geo_log)
            /\ geo_log'[Len(geo_log')].outcome \in FailedOutcomes =>
          /\ location_cache' = location_cache
          /\ cur'.location = <<>>
          /\ geo_log'[Len(geo_log')].ret = <<>>]_vars
    /\ [](\A i, j \in Calls :
            /\ i < j
            /\ geo_log[i].key = geo_log[j].key
            /\ geo_log[i].outcome \in FailedOutcomes
            /\ \A k \in Calls : i < k /\ k < j => geo_log[k].key # geo_log[i].key
            => geo_log[j].http /\ geo_log[j].slept)

C3_Witness ==
    \E i, j \in Calls :
        /\ i < j
        /\ geo_log[i].key = geo_log[j].key
        /\ geo_log[i].outcome = "status"
        /\ geo_log[j].http /\ geo_log[j].slept
        /\ sleeps = 2

RECURSIVE SumOptimizedMb(_)
SumOptimizedMb(records) ==
    IF records = <<>> THEN 0
    ELSE Head(records).optimized_size.file_size_mb + SumOptimizedMb(Tail(records))

Abs(x) == IF x < 0 THEN -x ELSE x

\* C4: in metadata.json the summary's total_optimized_size_mb equals the sum
\* of optimized_size.file_size_mb over the records of the photos array,
\* within the rounding of the terms (half a hundredth for each record and
\* for the total).
C4_SummaryMatchesRecords ==
    metadata_file # <<>> =>
        2 * Abs(metadata_file.summary.total_optimized_size_mb
                - SumOptimizedMb(metadata_file.photos))
          <= Len(metadata_file.photos) + 1

\* C5: the source file is moved to originals/ only by a process_photo call
\* whose own transcode has succeeded, and a PhotoRecord is appended only
\* after that move, when the optimized file exists in optimized/ under the
\* recorded optimized_filename.
C5_TranscodeThenMoveThenRecord ==
    /\ [][\A n \in FileNames :
            <<ORIGINALS, n>> \in fs' /\ <<ORIGINALS, n>> \notin fs =>
                n = cur.name /\ <<index, n>> \in transcoded]_vars
    /\ [][Len(photos_data') > Len(photos_data) =>
            LET r == photos_data'[Len(photos_data')] IN
            /\ r.original_filename = cur.name
            /\ <<index, cur.name>> \in transcoded
            /\ <<ORIGINALS, r.original_filename>> \in fs
            /\ <<SOURCE, r.original_filename>> \notin fs
            /\ <<OPTIMIZED, r.optimized_filename>> \in fs]_vars
    /\ [](\A i \in Records :
            /\ <<ORIGINALS, photos_data[i].original_filename>> \in fs
            /\ <<OPTIMIZED, photos_data[i].optimized_filename>> \in fs)
    /\ [](\A p \in fs : p[1] = ORIGINALS => \E t \in transcoded : t[2] = p[2])

C5_Witness ==
    /\ Len(photos_data) >= 1
    /\ \E f \in failures : f[3] = "transcode"
    /\ \E f \in failures : f[3] = "move"

\* C6: whatever the metadata of a decodable photo, get_datetime_taken and
\* get_gps_coordinates return None instead of raising: no photo is aborted
\* when its timestamp and coordinates are derived.
C6_MetadataNeverAborts ==
    \A f \in failures : f[3] # "metadata"

\* the names get_image_files is specified to return
IsImageName(name) == \E ext \in {ext_jpg, ext_jpeg, ext_heic} : LowerStr(Suffix(name)) = ext

\* C8: get_image_files returns exactly the files directly in the source
\* directory whose extension is jpg, jpeg or heic in any letter case, each
\* once, in sorted order, and the photos are processed in that order.
C8_EnumerationCaseInsensitive ==
    pc # "start" =>
        /\ {image_files[i] : i \in 1..Len(image_files)}
             = {n \in FileNames : <<SOURCE, n>> \in fs \/ <<ORIGINALS, n>> \in fs} \cap
               {n \in FileNames : IsImageName(n)}
        /\ \A i, j \in 1..Len(image_files) : i < j => StrLess(image_files[i], image_files[j])
        /\ \A i, j \in Records :
             i < j => StrLess(photos_data[i].original_filename,
                              photos_data[j].original_filename)

\* C9: optimize_image returns width 1920 and the height h*1920/w rounded to
\* the nearest integer when w > 1920, the size unchanged when w <= 1920, and
\* never a width above the source width.
C9_ResizeRoundsToNearest ==
    \A i \in Records :
        LET w  == photos_data[i].original_size.width
            h  == photos_data[i].original_size.height
            ow == photos_data[i].optimized_size.width
            oh == photos_data[i].optimized_size.height
        IN /\ ow <= w
           /\ IF w > MAX_WIDTH
              THEN ow = MAX_WIDTH /\ 2 * Abs(oh * w - MAX_WIDTH * h) <= w
              ELSE ow = w /\ oh = h

\* C10: no two PhotoRecords have the same optimized_filename, and the
\* optimized file of a recorded photo is not overwritten by the transcode
\* of a later photo: it still holds that photo's image.
C10_DistinctOptimizedFiles ==
    /\ \A i, j \in Records :
         i # j => photos_data[i].optimized_filename # photos_data[j].optimized_filename
    /\ \A i \in Records :
         optimized_content[photos_data[i].optimized_filename]
           = photos_data[i].original_filename

\* steps run() still has ahead of it, at most
StepRank ==
    CASE pc = "stat" -> 9 [] pc = "decode" -> 8 [] pc = "metadata" -> 7
      [] pc = "geocode" -> 6 [] pc = "transcode" -> 5 [] pc = "optsize" -> 4
      [] pc = "move" -> 3 [] pc = "append" -> 2 [] pc = "finish" -> 1
      [] OTHER -> 0
StepsLeft ==
    IF pc = "start" THEN 10 * (Len(extensions) * Cardinality(fs) + 1)
    ELSE IF pc = "done" THEN 0
    ELSE 10 * (Len(image_files) + 1 - index) + StepRank

\* C7: run() always reaches its end and reports (RunStart has no guard but
\* pc = "start", after it a step can always be taken until run() is done,
\* and every step brings the end nearer); metadata.json is
\* written exactly when at least one PhotoRecord was produced, once, and only
\* after the last file has been processed (never with zero files or records).
C7_RunEndsAndSavesIffRecords ==
    /\ [](pc \notin {"start", "done"} => ENABLED LoopStep)
    /\ [][StepsLeft' < StepsLeft /\ StepsLeft' >= 0]_vars
    /\ [](pc = "done" => /\ reported # ""
                         /\ (metadata_writes = 1) <=> (photos_data # <<>>)
                         /\ (metadata_file # <<>>) <=> (photos_data # <<>>))
    /\ [](pc # "done" => metadata_writes = 0 /\ metadata_file = <<>>)
    /\ [](metadata_writes <= 1)

C7_Witness ==
    /\ pc = "done"
    /\ failures # {}
    /\ Len(photos_data) >= 1
    /\ metadata_writes = 1
    /\ metadata_file.summary.total_photos = Len(photos_data)

====
